---- MODULE Spec2Model ----
(***************************************************************************)
(* Operator expression algebra of qiskit.aqua.operators (CircuitStateFn    *)
(* and the combinators it returns): expression trees, their construction   *)
(* operations, the evaluation engine, the reduction engine and the         *)
(* parameter binder.                                                       *)
(***************************************************************************)
EXTENDS Integers, Sequences, FiniteSets, TLC

(***************************************************************************)
(* Bounds of the model.                                                    *)
(***************************************************************************)
\* largest number of nodes of a tree the caller keeps
MaxNodes == 3
\* trees of at most this many qubits are evaluated on every basis label
MaxEvalQubits == 3
\* largest real or imaginary part of a coefficient of a tree the caller keeps
MaxCoeff == 2
\* largest number of repetitions ("shots") of a sample call
MaxShots == 4
\* longest basis label given to an eval call
MaxLabel == 2
\* largest number of construction calls that build a tree whose
\* simplification is followed rule by rule
MaxBuild == 3

(***************************************************************************)
(* Program constants.                                                      *)
(***************************************************************************)
\* to_matrix / to_density_matrix: "more than 16 qubits" needs massive=True
MassiveQubits == 16

(***************************************************************************)
(* Complex scalars, as Gaussian integers <<re, im>>.                       *)
(***************************************************************************)
GZero == <<0, 0>>
GOne == <<1, 0>>
GI == <<0, 1>>
GTwo == <<2, 0>>
GAdd(a, b) == <<a[1] + b[1], a[2] + b[2]>>
GMul(a, b) == <<a[1] * b[1] - a[2] * b[2], a[1] * b[2] + a[2] * b[1]>>
GConj(a) == <<a[1], 0 - a[2]>>

(***************************************************************************)
(* Basis labels: strings of 0/1, position 1 the leftmost character.  The   *)
(* string is printed with qubit 0 at its end, so qubit q of an n-qubit     *)
(* label is the character at position n - q.                               *)
(***************************************************************************)
Bits == {0, 1}
Labels(n) == [1..n -> Bits]
BitOfQubit(x, q) == x[Len(x) - q]
\* the label of the cnt qubits lo, lo+1, ..., lo+cnt-1 of x
QubitSlice(x, lo, cnt) == [i \in 1..cnt |-> BitOfQubit(x, lo + cnt - i)]

(***************************************************************************)
(* Coefficients: a number, times an optional placeholder (conjugated or    *)
(* not).                                                                   *)
(***************************************************************************)
NoPar == "none"
Placeholders == {"p", "q"}
NumCoeff(g) == [num |-> g, par |-> NoPar, cj |-> FALSE]
ParCoeff(p) == [num |-> GOne, par |-> p, cj |-> FALSE]
CoeffOne == NumCoeff(GOne)
CoeffIsNum(c) == c.par = NoPar
CoeffConj(c) == [num |-> GConj(c.num), par |-> c.par,
                 cj |-> IF c.par = NoPar THEN FALSE ELSE ~c.cj]
\* the product of two coefficients of which at most one holds a placeholder
CoeffMul(c, d) ==
  [num |-> GMul(c.num, d.num),
   par |-> IF c.par = NoPar THEN d.par ELSE c.par,
   cj |-> IF c.par = NoPar THEN d.cj ELSE c.cj]
CoeffIsZero(c) == c.num = GZero

(***************************************************************************)
(* Expression trees.  Every node exposes n (numQubits), coeff and cat, its *)
(* category: "State", "Meas" (is_measurement), "Op", and for combinators   *)
(* of mixed operands "Scalar" (measurement after state) and "Mixed".       *)
(***************************************************************************)
NoTree == [kind |-> "None", prim |-> <<>>, kids |-> <<>>, coeff |-> CoeffOne,
           n |-> 0, cat |-> "None", red |-> "none"]
\* CircuitStateFn(primitive, coeff, is_measurement): the circuit prepares the
\* one-qubit state prim[q+1] on qubit q, starting from |0>
StateLeaf(prim, c, isMeas) ==
  [kind |-> "Circ", prim |-> prim, kids |-> <<>>, coeff |-> c,
   n |-> Len(prim), cat |-> IF isMeas THEN "Meas" ELSE "State", red |-> "none"]
\* a primitive operator: the gate prim[q+1] on qubit q
OpLeaf(prim, c) ==
  [kind |-> "Prim", prim |-> prim, kids |-> <<>>, coeff |-> c,
   n |-> Len(prim), cat |-> "Op", red |-> "none"]
Node(kind, kids, c, n, cat, red) ==
  [kind |-> kind, prim |-> <<>>, kids |-> kids, coeff |-> c,
   n |-> n, cat |-> cat, red |-> red]
IsLeaf(t) == t.kind \in {"Circ", "Prim"}
IsMeasurement(t) == t.cat = "Meas"
IsStateFn(t) == t.cat \in {"State", "Meas"}

RECURSIVE CircuitCount(_)
RECURSIVE SeqCircuitCount(_)
\* the number of circuit-backed leaves of t: the evaluation of each needs
\* the circuit collaborator
CircuitCount(t) ==
  IF t.kind = "Circ" THEN 1 ELSE SeqCircuitCount(t.kids)
SeqCircuitCount(s) ==
  IF s = <<>> THEN 0 ELSE CircuitCount(Head(s)) + SeqCircuitCount(Tail(s))

RECURSIVE NodeCount(_)
RECURSIVE SeqNodeCount(_)
NodeCount(t) == IF IsLeaf(t) THEN 1 ELSE 1 + SeqNodeCount(t.kids)
SeqNodeCount(s) == IF s = <<>> THEN 0 ELSE NodeCount(Head(s)) + SeqNodeCount(Tail(s))

\* the amplitude of a one-qubit state at a bit
Amp1(name, bit) ==
  CASE name = "0" -> IF bit = 0 THEN GOne ELSE GZero
    [] name = "1" -> IF bit = 1 THEN GOne ELSE GZero
    [] name = "+" -> GOne
    [] name = "i" -> IF bit = 0 THEN GOne ELSE GI
\* the entry (row, col) of a one-qubit gate
Gate1(name, row, col) ==
  CASE name = "I" -> IF row = col THEN GOne ELSE GZero
    [] name = "X" -> IF row = col THEN GZero ELSE GOne
    [] name = "S" -> IF row # col THEN GZero ELSE IF row = 0 THEN GOne ELSE GI
    [] name = "Sdg" -> IF row # col THEN GZero ELSE IF row = 0 THEN GOne ELSE GConj(GI)
Gate1Adjoint(name) ==
  CASE name = "S" -> "Sdg" [] name = "Sdg" -> "S" [] OTHER -> name

RECURSIVE CircAmpFrom(_, _, _)
CircAmpFrom(prim, x, q) ==
  IF q = Len(prim) THEN GOne
  ELSE GMul(Amp1(prim[q + 1], BitOfQubit(x, q)), CircAmpFrom(prim, x, q + 1))
\* <x| circuit |0...0>
CircAmp(prim, x) == CircAmpFrom(prim, x, 0)

RECURSIVE GateEntryFrom(_, _, _, _)
GateEntryFrom(prim, row, col, q) ==
  IF q = Len(prim) THEN GOne
  ELSE GMul(Gate1(prim[q + 1], BitOfQubit(row, q), BitOfQubit(col, q)),
            GateEntryFrom(prim, row, col, q + 1))
\* <row| gates |col>
GateEntry(prim, row, col) == GateEntryFrom(prim, row, col, 0)

(***************************************************************************)
(* Results of an evaluation and fronts.  k = "S": a complex number;        *)
(* "V": a state vector, a function from the labels to their amplitudes;    *)
(* "L": a sequence of results; "E": no result (an invalid front or an      *)
(* unbound placeholder); "B": a basis label (a front only).                *)
(***************************************************************************)
ValS(g) == [k |-> "S", v |-> g]
ValV(fn) == [k |-> "V", v |-> fn]
ValL(s) == [k |-> "L", v |-> s]
ValE == [k |-> "E", v |-> <<>>]
Basis(x) == [k |-> "B", v |-> x]
VecQubits(fn) == Len(CHOOSE z \in DOMAIN fn : TRUE)
RECURSIVE IsResult(_)
\* a result with no error in it
IsResult(a) ==
  a.k # "E" /\ (a.k = "L" => \A i \in 1..Len(a.v) : IsResult(a.v[i]))

RECURSIVE VScale(_, _)
VScale(g, a) ==
  CASE a.k = "S" -> ValS(GMul(g, a.v))
    [] a.k = "V" -> ValV([z \in DOMAIN a.v |-> GMul(g, a.v[z])])
    [] a.k = "L" -> ValL([i \in 1..Len(a.v) |-> VScale(g, a.v[i])])
    [] OTHER -> ValE

RECURSIVE VAdd(_, _)
VAdd(a, b) ==
  CASE a.k = "S" /\ b.k = "S" -> ValS(GAdd(a.v, b.v))
    [] a.k = "V" /\ b.k = "V" /\ DOMAIN a.v = DOMAIN b.v ->
         ValV([z \in DOMAIN a.v |-> GAdd(a.v[z], b.v[z])])
    [] a.k = "L" /\ b.k = "L" /\ Len(a.v) = Len(b.v) ->
         ValL([i \in 1..Len(a.v) |-> VAdd(a.v[i], b.v[i])])
    [] OTHER -> ValE

\* the product of the results of the two sides of a tensor product, the left
\* side on the higher qubits (the first characters of the label)
VKron(a, b) ==
  CASE a.k = "S" /\ b.k \in {"S", "V"} -> VScale(a.v, b)
    [] a.k = "V" /\ b.k = "S" -> VScale(b.v, a)
    [] a.k = "V" /\ b.k = "V" ->
         LET na == VecQubits(a.v)
             nb == VecQubits(b.v)
         IN ValV([z \in Labels(na + nb) |->
                    GMul(a.v[SubSeq(z, 1, na)], b.v[SubSeq(z, na + 1, na + nb)])])
    [] OTHER -> ValE

ApplyCoeff(c, a) == IF CoeffIsNum(c) THEN VScale(c.num, a) ELSE ValE

\* the result of a Sum with no term
ZeroVal(t, f) ==
  CASE f.k \notin {"B", "V"} -> ValE
    [] f.k = "B" /\ Len(f.v) # t.n -> ValE
    [] t.cat = "Op" -> ValV([z \in Labels(t.n) |-> GZero])
    [] t.cat = "State" /\ f.k = "V" -> ValE
    [] t.cat \in {"State", "Meas", "Scalar"} -> ValS(GZero)
    [] OTHER -> ValE

RECURSIVE SeqQubits(_)
SeqQubits(s) == IF s = <<>> THEN 0 ELSE Head(s).n + SeqQubits(Tail(s))

(***************************************************************************)
(* The evaluation engine.                                                  *)
(***************************************************************************)
RECURSIVE Eval(_, _)
RECURSIVE EvalLeafBasis(_, _)
RECURSIVE LinExt(_, _, _)
RECURSIVE EvalSum(_, _)
RECURSIVE EvalCompose(_, _)
RECURSIVE EvalTensor(_, _)

\* a leaf on a basis label of its own length
EvalLeafBasis(t, x) ==
  CASE t.kind = "Circ" /\ t.cat = "State" -> ValS(CircAmp(t.prim, x))
    [] t.kind = "Circ" /\ t.cat = "Meas" -> ValS(GConj(CircAmp(t.prim, x)))
    [] t.kind = "Prim" -> ValV([row \in Labels(t.n) |-> GateEntry(t.prim, row, x)])

\* the dense fallback: t on a state vector, by linearity over the labels ys
LinExt(t, v, ys) ==
  LET y == CHOOSE z \in ys : TRUE
      term == VScale(v[y], Eval(t, Basis(y)))
  IN IF ys = {y} THEN term ELSE VAdd(term, LinExt(t, v, ys \ {y}))

\* Sum: each child on the same front, the results added
EvalSum(kids, f) ==
  IF Len(kids) = 1 THEN Eval(kids[1], f)
  ELSE VAdd(Eval(Head(kids), f), EvalSum(Tail(kids), f))

\* Compose: the right operand first, its result the front of the left operand
EvalCompose(kids, f) ==
  IF Len(kids) = 1 THEN Eval(kids[1], f)
  ELSE Eval(Head(kids), EvalCompose(Tail(kids), f))

\* Tensor on a basis label: the label split along the qubit spaces, the last
\* child on qubits [0, n), each child before it on the next higher qubits
EvalTensor(kids, x) ==
  IF kids = <<>> THEN ValS(GOne)
  ELSE LET lo == SeqQubits(Tail(kids))
       IN VKron(Eval(Head(kids), Basis(QubitSlice(x, lo, Head(kids).n))),
                EvalTensor(Tail(kids), QubitSlice(x, 0, lo)))

\* the evaluation as it would be with the list of the front unfolded before
\* the children of a collect-all List
EvalFrontOutermost(t, f) ==
  CASE f.k \in {"E", "S"} -> ValE
    [] f.k = "L" -> ValL([j \in 1..Len(f.v) |-> Eval(t, f.v[j])])
    [] t.kind = "List" /\ t.red = "collect" ->
         ApplyCoeff(t.coeff, ValL([i \in 1..Len(t.kids) |-> Eval(t.kids[i], f)]))
    [] t.kind \in {"Sum", "List"} ->
         ApplyCoeff(t.coeff, IF t.kids = <<>> THEN ZeroVal(t, f) ELSE EvalSum(t.kids, f))
    [] t.kind = "Compose" -> ApplyCoeff(t.coeff, EvalCompose(t.kids, f))
    [] f.k = "B" /\ Len(f.v) # t.n -> ValE
    [] f.k = "V" /\ (DOMAIN f.v # Labels(t.n) \/ t.cat = "State") -> ValE
    [] f.k = "V" -> LinExt(t, f.v, Labels(t.n))
    [] t.kind = "Tensor" -> ApplyCoeff(t.coeff, EvalTensor(t.kids, f.v))
    [] OTHER -> ApplyCoeff(t.coeff, EvalLeafBasis(t, f.v))

Eval(t, f) ==
  CASE f.k \in {"E", "S"} -> ValE
    [] t.kind = "List" /\ t.red = "collect" ->
         ApplyCoeff(t.coeff, ValL([i \in 1..Len(t.kids) |-> Eval(t.kids[i], f)]))
    [] f.k = "L" -> ValL([j \in 1..Len(f.v) |-> Eval(t, f.v[j])])
    [] t.kind \in {"Sum", "List"} ->
         ApplyCoeff(t.coeff, IF t.kids = <<>> THEN ZeroVal(t, f) ELSE EvalSum(t.kids, f))
    [] t.kind = "Compose" -> ApplyCoeff(t.coeff, EvalCompose(t.kids, f))
    [] f.k = "B" /\ Len(f.v) # t.n -> ValE
    [] f.k = "V" /\ (DOMAIN f.v # Labels(t.n) \/ t.cat = "State") -> ValE
    [] f.k = "V" -> LinExt(t, f.v, Labels(t.n))
    [] t.kind = "Tensor" -> ApplyCoeff(t.coeff, EvalTensor(t.kids, f.v))
    [] OTHER -> ApplyCoeff(t.coeff, EvalLeafBasis(t, f.v))

\* the trees that are evaluated
Evaluable(t) == t.n <= MaxEvalQubits
\* the front of an eval() call without argument
NoFront == [k |-> "N", v |-> <<>>]
ZeroLabel(n) == [i \in 1..n |-> 0]
Valued(v) == [status |-> "ok", value |-> v]
NoValue(e) == [status |-> e, value |-> ValE]
\* the default front as it would be with the all-one label
DefaultFrontOnes(t) == Basis([i \in 1..t.n |-> 1])
\* the front of an eval call without argument: the all-zero label
DefaultFront(t) == Basis(ZeroLabel(t.n))
\* eval as it would be if it read the last numQubits characters of a label
\* that is too long
evalTruncating(t, front) ==
  LET f == IF front = NoFront THEN DefaultFront(t)
           ELSE IF front.k = "B" /\ Len(front.v) > t.n
           THEN Basis(SubSeq(front.v, Len(front.v) - t.n + 1, Len(front.v)))
           ELSE front
      v == Eval(t, f)
  IN IF IsResult(v) THEN Valued(v) ELSE NoValue("EvalError")
\* eval(front=None): the value of the underlying function on the front; a
\* front that is absent is the all-zero label; a front that is not valid
\* for the tree (or a tree with an unbound placeholder) gives no value
eval(t, front) ==
  LET f == IF front = NoFront THEN DefaultFront(t) ELSE front
      v == Eval(t, f)
  IN IF IsResult(v) THEN Valued(v) ELSE NoValue("EvalError")

(***************************************************************************)
(* Outcomes of an operation: a new tree, or an error that returns none.    *)
(***************************************************************************)
Ok(t) == [status |-> "ok", tree |-> t]
Fail(e) == [status |-> e, tree |-> NoTree]

RECURSIVE ScaledCount(_)
RECURSIVE SeqScaledCount(_)
\* the number of nodes whose coefficient is not 1
ScaledCount(t) ==
  (IF t.coeff = CoeffOne THEN 0 ELSE 1) + SeqScaledCount(t.kids)
SeqScaledCount(s) ==
  IF s = <<>> THEN 0 ELSE ScaledCount(Head(s)) + SeqScaledCount(Tail(s))

Abs(i) == IF i < 0 THEN 0 - i ELSE i
RECURSIVE CoeffsWithin(_, _)
\* every coefficient of t has its parts within -m .. m
CoeffsWithin(t, m) ==
  /\ Abs(t.coeff.num[1]) <= m
  /\ Abs(t.coeff.num[2]) <= m
  /\ \A i \in 1..Len(t.kids) : CoeffsWithin(t.kids[i], m)

(***************************************************************************)
(* The construction operations.  None changes its operands: each returns   *)
(* a new node.                                                             *)
(***************************************************************************)
\* add as it would be with the Sum given the coefficient of self
addKeepsCoeff(a, b) ==
  IF a.n # b.n \/ a.cat # b.cat THEN Fail("CompositionError")
  ELSE Ok(Node("Sum", <<a, b>>, a.coeff, a.n, a.cat, "none"))
\* add as it would be without the check of its operands
addUnchecked(a, b) ==
  Ok(Node("Sum", <<a, b>>, CoeffOne, a.n, a.cat, "none"))
\* add(other): other has the same number of qubits and the same category
add(a, b) ==
  IF a.n # b.n \/ a.cat # b.cat THEN Fail("CompositionError")
  ELSE Ok(Node("Sum", <<a, b>>, CoeffOne, a.n, a.cat, "none"))

TensorCat(ca, cb) ==
  CASE ca = cb -> ca
    [] ca = "Scalar" -> cb
    [] cb = "Scalar" -> ca
    [] OTHER -> "Mixed"
\* tensor as it would be with self on the lower qubits
tensorSwapped(a, b) ==
  Ok(Node("Tensor", <<b, a>>, CoeffOne, a.n + b.n, TensorCat(a.cat, b.cat), "none"))
\* tensor(other): self on the higher qubits, other on qubits [0, other.n)
tensor(a, b) ==
  Ok(Node("Tensor", <<a, b>>, CoeffOne, a.n + b.n, TensorCat(a.cat, b.cat), "none"))

ComposeCat(ca, cb) ==
  CASE ca = "Meas" /\ cb = "State" -> "Scalar"
    [] ca = "Meas" /\ cb \in {"Op", "Meas", "Scalar"} -> "Meas"
    [] ca \in {"Op", "Scalar"} /\ cb \in {"Op", "State", "Scalar"} -> cb
    [] OTHER -> "Mixed"
\* compose as it would be without the check of self
composeUnchecked(a, b) ==
  IF (a.cat = "Op" /\ b.cat = "Meas") \/ a.n # b.n
  THEN Fail("CompositionError")
  ELSE Ok(Node("Compose", <<a, b>>, CoeffOne, a.n, ComposeCat(a.cat, b.cat), "none"))
\* compose as it would be with other applied after self
composeSwapped(a, b) ==
  IF a.cat = "State" \/ (a.cat = "Op" /\ b.cat = "Meas") \/ a.n # b.n
  THEN Fail("CompositionError")
  ELSE Ok(Node("Compose", <<b, a>>, CoeffOne, a.n, ComposeCat(a.cat, b.cat), "none"))
\* compose(other): "ValueError - If self is not a measurement, it cannot be
\* composed from the right"; an operator takes no measurement on its right
\* (a category mismatch).  The error is CompositionError in the taxonomy of
\* the specification.
compose(a, b) ==
  IF a.cat = "State" \/ (a.cat = "Op" /\ b.cat = "Meas") \/ a.n # b.n
  THEN Fail("CompositionError")
  ELSE Ok(Node("Compose", <<a, b>>, CoeffOne, a.n, ComposeCat(a.cat, b.cat), "none"))

AdjointCat(c) ==
  CASE c = "State" -> "Meas" [] c = "Meas" -> "State" [] OTHER -> c
Reverse(s) == [i \in 1..Len(s) |-> s[Len(s) + 1 - i]]
RECURSIVE adjointToMeasurement(_)
\* adjoint as it would be if it made every state function a measurement
adjointToMeasurement(t) ==
  CASE t.kind = "Circ" -> [t EXCEPT !.cat = "Meas", !.coeff = CoeffConj(@)]
    [] t.kind = "Prim" ->
         [t EXCEPT !.prim = [q \in 1..Len(t.prim) |-> Gate1Adjoint(t.prim[q])],
                   !.coeff = CoeffConj(@)]
    [] t.kind = "Compose" ->
         [t EXCEPT !.kids = Reverse([i \in 1..Len(t.kids) |->
                                       adjointToMeasurement(t.kids[i])]),
                   !.cat = AdjointCat(@), !.coeff = CoeffConj(@)]
    [] OTHER ->
         [t EXCEPT !.kids = [i \in 1..Len(t.kids) |-> adjointToMeasurement(t.kids[i])],
                   !.cat = AdjointCat(@), !.coeff = CoeffConj(@)]
RECURSIVE adjointKeepsCoeff(_)
\* adjoint as it would be if it left the coefficients as they are
adjointKeepsCoeff(t) ==
  CASE t.kind = "Circ" -> [t EXCEPT !.cat = AdjointCat(@)]
    [] t.kind = "Prim" ->
         [t EXCEPT !.prim = [q \in 1..Len(t.prim) |-> Gate1Adjoint(t.prim[q])]]
    [] t.kind = "Compose" ->
         [t EXCEPT !.kids = Reverse([i \in 1..Len(t.kids) |->
                                       adjointKeepsCoeff(t.kids[i])]),
                   !.cat = AdjointCat(@)]
    [] OTHER ->
         [t EXCEPT !.kids = [i \in 1..Len(t.kids) |-> adjointKeepsCoeff(t.kids[i])],
                   !.cat = AdjointCat(@)]
RECURSIVE adjoint(_)
\* adjoint(): conjugate transpose; a state function becomes a measurement
\* and a measurement a state function
adjoint(t) ==
  CASE t.kind = "Circ" ->
         [t EXCEPT !.cat = AdjointCat(@), !.coeff = CoeffConj(@)]
    [] t.kind = "Prim" ->
         [t EXCEPT !.prim = [q \in 1..Len(t.prim) |-> Gate1Adjoint(t.prim[q])],
                   !.coeff = CoeffConj(@)]
    [] t.kind = "Compose" ->
         [t EXCEPT !.kids = Reverse([i \in 1..Len(t.kids) |-> adjoint(t.kids[i])]),
                   !.cat = AdjointCat(@), !.coeff = CoeffConj(@)]
    [] OTHER ->
         [t EXCEPT !.kids = [i \in 1..Len(t.kids) |-> adjoint(t.kids[i])],
                   !.cat = AdjointCat(@), !.coeff = CoeffConj(@)]

\* mul as it would be if the scalar took the place of the coefficient
mulReplacesCoeff(t, c) == [t EXCEPT !.coeff = c]
\* mul(scalar): the scalar is a number or a placeholder
mul(t, c) == [t EXCEPT !.coeff = CoeffMul(@, c)]
GNeg(a) == <<0 - a[1], 0 - a[2]>>
\* neg(): "Return the Operator's negation"
neg(t) == [t EXCEPT !.coeff.num = GNeg(@)]

\* the designated identity/empty element of the tensor product
TensorUnit == Node("Tensor", <<>>, CoeffOne, 0, "Scalar", "none")
RECURSIVE TensorTimes(_, _)
TensorTimes(t, k) == IF k = 1 THEN t ELSE tensor(TensorTimes(t, k - 1), t).tree
RECURSIVE TensorTimesRight(_, _)
TensorTimesRight(t, k) ==
  IF k = 1 THEN t ELSE tensor(t, TensorTimesRight(t, k - 1)).tree
\* tensorpower as it would be if it associated to the right
tensorpowerRight(t, k) ==
  IF k < 0 THEN Fail("InvalidArgument")
  ELSE IF k = 0 THEN Ok(TensorUnit)
  ELSE Ok(TensorTimesRight(t, k))
\* tensorpower(n): the n-fold tensor product of self, left-associative
tensorpower(t, k) ==
  IF k < 0 THEN Fail("InvalidArgument")
  ELSE IF k = 0 THEN Ok(TensorUnit)
  ELSE Ok(TensorTimes(t, k))

\* permute as it would be if position j took the qubit at index
\* permutation[j]
permuteInverse(t, perm) ==
  IF Len(perm) # t.n THEN Fail("PermutationSizeError")
  ELSE Ok([t EXCEPT !.prim = [i \in 1..t.n |-> t.prim[perm[i] + 1]]])
\* permute(permutation) of a leaf: "The qubit at index j of the circuit
\* should be permuted to position permutation[j]"; a permutation whose
\* length is not numQubits is a PermutationSizeError
permute(t, perm) ==
  IF Len(perm) # t.n THEN Fail("PermutationSizeError")
  ELSE Ok([t EXCEPT !.prim =
             [i \in 1..t.n |-> t.prim[CHOOSE j \in 1..t.n : perm[j] = i - 1]]])

(***************************************************************************)
(* The reduction engine: one bottom-up pass.                               *)
(***************************************************************************)
RECURSIVE CoeffProduct(_)
\* the product of the numeric coefficients of the nodes of s
CoeffProduct(s) ==
  IF s = <<>> THEN GOne ELSE GMul(Head(s).coeff.num, CoeffProduct(Tail(s)))

\* two coefficients whose product holds at most one placeholder
CanMerge(c, d) == CoeffIsNum(c) \/ CoeffIsNum(d)

\* an identity element of a Compose chain
IsComposeIdentity(t) ==
  /\ t.kind = "Prim"
  /\ \A q \in 1..Len(t.prim) : t.prim[q] = "I"
  /\ CoeffIsNum(t.coeff)
\* the identity elements of a Tensor chain as they would be if the identity
\* operators of a Compose chain counted as well
IsTensorIdentityOrGate(t) ==
  (t.kind = "Tensor" /\ t.kids = <<>> /\ CoeffIsNum(t.coeff)) \/ IsComposeIdentity(t)
\* an identity element of a Tensor chain
IsTensorIdentity(t) ==
  t.kind = "Tensor" /\ t.kids = <<>> /\ CoeffIsNum(t.coeff)

RECURSIVE FlattenSums(_)
\* the terms of the nested Sums among s take the place of the Sums, each
\* multiplied by the coefficient of its Sum
FlattenSums(s) ==
  IF s = <<>> THEN <<>>
  ELSE LET h == Head(s)
       IN (IF h.kind = "Sum" /\ CoeffIsNum(h.coeff)
           THEN [i \in 1..Len(h.kids) |-> mul(h.kids[i], h.coeff)]
           ELSE <<h>>) \o FlattenSums(Tail(s))

\* whether node t passes the filter named by rule
Passes(t, rule) ==
  CASE rule = "nonzero" -> ~CoeffIsZero(t.coeff)
    [] rule = "composeIdentity" -> IsComposeIdentity(t)
    [] rule = "notComposeIdentity" -> ~IsComposeIdentity(t)
    [] rule = "tensorIdentity" -> IsTensorIdentity(t)
    [] rule = "notTensorIdentity" -> ~IsTensorIdentity(t)
RECURSIVE SelectNodes(_, _)
SelectNodes(s, rule) ==
  IF s = <<>> THEN <<>>
  ELSE (IF Passes(Head(s), rule) THEN <<Head(s)>> ELSE <<>>)
       \o SelectNodes(Tail(s), rule)

\* a combinator of one child is the child times the combinator's coefficient
Collapse(t) ==
  IF Len(t.kids) = 1 /\ CanMerge(t.coeff, t.kids[1].coeff)
  THEN mul(t.kids[1], t.coeff)
  ELSE t

\* the rules of one node whose children are reduced
ReduceNode(t) ==
  CASE t.kind = "Sum" ->
         Collapse([t EXCEPT !.kids = SelectNodes(FlattenSums(t.kids), "nonzero")])
    [] t.kind = "Compose" ->
         LET rest == SelectNodes(t.kids, "notComposeIdentity")
             gone == SelectNodes(t.kids, "composeIdentity")
             c == CoeffMul(t.coeff, NumCoeff(CoeffProduct(gone)))
         IN IF rest = <<>> /\ gone # <<>>
            THEN [gone[1] EXCEPT !.coeff = c]
            ELSE Collapse([t EXCEPT !.kids = rest, !.coeff = c])
    [] t.kind = "Tensor" ->
         LET rest == SelectNodes(t.kids, "notTensorIdentity")
             gone == SelectNodes(t.kids, "tensorIdentity")
             c == CoeffMul(t.coeff, NumCoeff(CoeffProduct(gone)))
         IN Collapse([t EXCEPT !.kids = rest, !.coeff = c])
    [] t.kind = "List" -> Collapse(t)
    [] OTHER -> t

RECURSIVE reduceTopDown(_)
\* reduce as it would be with the rules of a node applied before its
\* children are reduced
reduceTopDown(t) ==
  IF IsLeaf(t) THEN t
  ELSE LET r == ReduceNode(t)
       IN [r EXCEPT !.kids = [i \in 1..Len(r.kids) |-> reduceTopDown(r.kids[i])]]
RECURSIVE reduceKeepsCollectAll(_)
\* reduce as it would be if a collect-all List of one child kept its wrapper
reduceKeepsCollectAll(t) ==
  IF IsLeaf(t) THEN t
  ELSE LET r == [t EXCEPT !.kids = [i \in 1..Len(t.kids) |->
                                     reduceKeepsCollectAll(t.kids[i])]]
       IN IF r.kind = "List" /\ r.red = "collect" THEN r ELSE ReduceNode(r)
RECURSIVE reduceDistributing(_)
\* reduce as it would be if it also moved the coefficient of a Sum into its
\* terms
reduceDistributing(t) ==
  IF IsLeaf(t) THEN t
  ELSE LET r == ReduceNode([t EXCEPT !.kids = [i \in 1..Len(t.kids) |->
                                                reduceDistributing(t.kids[i])]])
       IN IF r.kind = "Sum" /\ CoeffIsNum(r.coeff)
          THEN [r EXCEPT !.kids = [i \in 1..Len(r.kids) |-> mul(r.kids[i], r.coeff)],
                         !.coeff = CoeffOne]
          ELSE r
RECURSIVE reduce(_)
\* reduce(): "If no reduction is available, just returns self"
reduce(t) ==
  IF IsLeaf(t) THEN t
  ELSE ReduceNode([t EXCEPT !.kids = [i \in 1..Len(t.kids) |-> reduce(t.kids[i])]])

(***************************************************************************)
(* The simplification rules one at a time: each is applied at one node of  *)
(* the tree, named by the path of child indices that leads to it.          *)
(***************************************************************************)
RemoveAt(s, i) == SubSeq(s, 1, i - 1) \o SubSeq(s, i + 1, Len(s))
\* rule "merge": child i of a Sum is a Sum, whose terms take its place
CanMergeNested(t, i) ==
  /\ t.kind = "Sum"
  /\ i \in 1..Len(t.kids)
  /\ t.kids[i].kind = "Sum"
  /\ CoeffIsNum(t.kids[i].coeff)
\* rule "merge" as it would be if it regrouped the nested Sum (its terms in
\* the opposite order) instead of putting the terms in its place
MergeNestedRegrouping(t, i) ==
  [t EXCEPT !.kids[i].kids = [j \in 1..Len(@) |-> @[Len(@) + 1 - j]]]
MergeNested(t, i) ==
  [t EXCEPT !.kids = SubSeq(t.kids, 1, i - 1) \o FlattenSums(<<t.kids[i]>>)
                     \o SubSeq(t.kids, i + 1, Len(t.kids))]
\* rule "zero": child i of a Sum has the coefficient 0 and is dropped
CanDropZero(t, i) ==
  /\ t.kind = "Sum"
  /\ i \in 1..Len(t.kids)
  /\ CoeffIsZero(t.kids[i].coeff)
DropZero(t, i) == [t EXCEPT !.kids = RemoveAt(t.kids, i)]
\* rule "identity": child i of a Compose or Tensor chain is an identity
\* element and is removed, its coefficient kept by the chain; the last
\* element of a Compose chain stays
CanRemoveIdentity(t, i) ==
  /\ i \in 1..Len(t.kids)
  /\ \/ t.kind = "Compose" /\ IsComposeIdentity(t.kids[i]) /\ Len(t.kids) > 1
     \/ t.kind = "Tensor" /\ IsTensorIdentity(t.kids[i])
RemoveIdentity(t, i) ==
  [t EXCEPT !.kids = RemoveAt(t.kids, i),
            !.coeff = CoeffMul(@, NumCoeff(t.kids[i].coeff.num))]
\* rule "single": a combinator of one child is replaced by the child
CanCollapse(t) ==
  ~IsLeaf(t) /\ Len(t.kids) = 1 /\ CanMerge(t.coeff, t.kids[1].coeff)

Rules == {"merge", "zero", "identity", "single"}
\* rule can be applied at the root of t (to child i)
Applicable(t, rule, i) ==
  CASE rule = "merge" -> CanMergeNested(t, i)
    [] rule = "zero" -> CanDropZero(t, i)
    [] rule = "identity" -> CanRemoveIdentity(t, i)
    [] rule = "single" -> CanCollapse(t) /\ i = 1
RewriteRoot(t, rule, i) ==
  CASE rule = "merge" -> MergeNested(t, i)
    [] rule = "zero" -> DropZero(t, i)
    [] rule = "identity" -> RemoveIdentity(t, i)
    [] rule = "single" -> Collapse(t)

RECURSIVE Paths(_)
\* the paths to the nodes of t
Paths(t) ==
  {<<>>} \cup UNION {{<<i>> \o q : q \in Paths(t.kids[i])} : i \in 1..Len(t.kids)}
RECURSIVE Subtree(_, _)
Subtree(t, path) ==
  IF path = <<>> THEN t ELSE Subtree(t.kids[Head(path)], Tail(path))
RECURSIVE RewriteAt(_, _, _, _)
\* t with the rule applied at the node of the path
RewriteAt(t, path, rule, i) ==
  IF path = <<>> THEN RewriteRoot(t, rule, i)
  ELSE [t EXCEPT !.kids[Head(path)] = RewriteAt(@, Tail(path), rule, i)]

(***************************************************************************)
(* The parameter binder.  A request maps placeholders to one value         *)
(* (k = "one"), a sequence of values ("seq") or another placeholder        *)
(* ("par").                                                                *)
(***************************************************************************)
One(g) == [k |-> "one", v |-> g]
Several(s) == [k |-> "seq", v |-> s]
Rename(p) == [k |-> "par", v |-> p]
SeqLengths(req) == {Len(req[p].v) : p \in {r \in DOMAIN req : req[r].k = "seq"}}
\* the request of position i of the sequences
RequestAt(req, i) ==
  [p \in DOMAIN req |-> IF req[p].k = "seq" THEN One(req[p].v[i]) ELSE req[p]]

SubstCoeff(c, req) ==
  IF c.par \notin DOMAIN req THEN c
  ELSE IF req[c.par].k = "par" THEN [c EXCEPT !.par = req[c.par].v]
  ELSE [num |-> GMul(c.num, IF c.cj THEN GConj(req[c.par].v) ELSE req[c.par].v),
        par |-> NoPar, cj |-> FALSE]
RECURSIVE Subst(_, _)
\* the tree with the placeholders of a request of single values replaced
Subst(t, req) ==
  [t EXCEPT !.coeff = SubstCoeff(@, req),
            !.kids = [i \in 1..Len(t.kids) |-> Subst(t.kids[i], req)]]

\* bind as it would be with every copy bound to the first values
bindFirstOnly(t, req) ==
  LET lens == SeqLengths(req)
  IN IF Cardinality(lens) > 1 THEN Fail("ParameterBroadcastError")
     ELSE IF lens = {} THEN Ok(Subst(t, req))
     ELSE LET len == CHOOSE l \in lens : TRUE
          IN Ok(Node("List", [i \in 1..len |-> Subst(t, RequestAt(req, 1))],
                     CoeffOne, t.n, t.cat, "collect"))
\* bind as it would be if it stopped at the end of the shortest sequence
bindTruncating(t, req) ==
  LET lens == SeqLengths(req)
  IN IF lens = {} THEN Ok(Subst(t, req))
     ELSE LET len == CHOOSE l \in lens : \A m \in lens : l <= m
          IN Ok(Node("List", [i \in 1..len |-> Subst(t, RequestAt(req, i))],
                     CoeffOne, t.n, t.cat, "collect"))
\* bind as it would be if a sequence of one value returned the bound tree
\* itself
bindUnwrapsSingleton(t, req) ==
  LET lens == SeqLengths(req)
  IN IF Cardinality(lens) > 1 THEN Fail("ParameterBroadcastError")
     ELSE IF lens \subseteq {1} THEN Ok(Subst(t, RequestAt(req, 1)))
     ELSE LET len == CHOOSE l \in lens : TRUE
          IN Ok(Node("List", [i \in 1..len |-> Subst(t, RequestAt(req, i))],
                     CoeffOne, t.n, t.cat, "collect"))
\* assign_parameters(param_dict): "If lists of parameterizations are used,
\* every Parameter in the param_dict must have the same length list"; "self
\* will be copied for each parameterization in the binding list(s), and all
\* the copies will be returned in an OpList"
bind(t, req) ==
  LET lens == SeqLengths(req)
  IN IF Cardinality(lens) > 1 THEN Fail("ParameterBroadcastError")
     ELSE IF lens = {} THEN Ok(Subst(t, req))
     ELSE LET len == CHOOSE l \in lens : TRUE
          IN Ok(Node("List", [i \in 1..len |-> Subst(t, RequestAt(req, i))],
                     CoeffOne, t.n, t.cat, "collect"))

(***************************************************************************)
(* The dense conversions.  Only the shape of the array is kept, as the     *)
(* base-2 logarithm of each dimension: <<n, n>> is a 2^n x 2^n matrix and  *)
(* <<n>> a vector of 2^n entries.                                          *)
(***************************************************************************)
Dense(shape) == [status |-> "ok", shape |-> shape]
NoDense(e) == [status |-> e, shape |-> <<>>]
\* to_matrix as it would be with the guard at 16 qubits and more
to_matrixFrom16(t, massive) ==
  IF t.n >= MassiveQubits /\ ~massive THEN NoDense("ResourceGuardError")
  ELSE IF IsStateFn(t) THEN Dense(<<t.n>>)
  ELSE Dense(<<t.n, t.n>>)
\* to_matrix(massive): the evaluation on every combination of basis labels;
\* more than 16 qubits need massive=True
to_matrix(t, massive) ==
  IF t.n > MassiveQubits /\ ~massive THEN NoDense("ResourceGuardError")
  ELSE IF IsStateFn(t) THEN Dense(<<t.n>>)
  ELSE Dense(<<t.n, t.n>>)
\* to_density_matrix(massive): the matrix of the density operator of a state
\* function
to_density_matrix(t, massive) ==
  IF t.n > MassiveQubits /\ ~massive THEN NoDense("ResourceGuardError")
  ELSE Dense(<<t.n, t.n>>)

(***************************************************************************)
(* The legacy-form conversion.  Only the kind of the legacy operator is     *)
(* kept: "WeightedPauliOperator", the sparse weighted form, or              *)
(* "MatrixOperator", the dense form.                                       *)
(***************************************************************************)
Legacy(form) == [status |-> "ok", form |-> form]
NoLegacy(e) == [status |-> e, form |-> "none"]
\* a sparse Pauli-type primitive (of the gates of the model, I and X)
IsPauli(t) ==
  t.kind = "Prim" /\ \A q \in 1..Len(t.prim) : t.prim[q] \in {"I", "X"}
\* "a SummedOp of PauliOps"
IsSumOfPaulis(t) ==
  t.kind = "Sum" /\ t.kids # <<>> /\ \A i \in 1..Len(t.kids) : IsPauli(t.kids[i])
RECURSIVE HasUnboundCoeff(_)
\* "an Operator with an unbound coeff Parameter"
HasUnboundCoeff(t) ==
  ~CoeffIsNum(t.coeff) \/ \E i \in 1..Len(t.kids) : HasUnboundCoeff(t.kids[i])
RECURSIVE HasProperList(_)
\* "proper ListOps (meaning not one of the ListOp subclasses)"
HasProperList(t) ==
  t.kind = "List" \/ \E i \in 1..Len(t.kids) : HasProperList(t.kids[i])
\* the trees the legacy operators cannot represent
Unrepresentable(t) ==
  CircuitCount(t) > 0 \/ HasProperList(t) \/ HasUnboundCoeff(t)
\* to_legacy_op as it would be if it converted nothing but a Sum of Paulis
to_legacy_opSumsOnly(t, massive) ==
  IF Unrepresentable(t) \/ ~IsSumOfPaulis(t) THEN NoLegacy("UnrepresentableError")
  ELSE Legacy("WeightedPauliOperator")
\* to_legacy_op(massive): "If self is a SummedOp of PauliOps, will attempt to
\* convert to WeightedPauliOperator, and otherwise will simply convert to
\* MatrixOp and then to MatrixOperator"; the TypeError of a tree that cannot
\* be represented is UnrepresentableError in the taxonomy of the
\* specification
to_legacy_op(t, massive) ==
  IF Unrepresentable(t) THEN NoLegacy("UnrepresentableError")
  ELSE IF IsSumOfPaulis(t) THEN Legacy("WeightedPauliOperator")
  ELSE IF to_matrix(t, massive).status # "ok" THEN NoLegacy(to_matrix(t, massive).status)
  ELSE Legacy("MatrixOperator")

(***************************************************************************)
(* sample: the outcome counts of the execution collaborator, a function    *)
(* from the labels to the number of repetitions that gave the label, are   *)
(* turned into a sequence of [label, prob], the probability a fraction     *)
(* <<numerator, denominator>>.                                             *)
(***************************************************************************)
LexLess(x, y) ==
  \E i \in 1..Len(x) : x[i] < y[i] /\ \A j \in 1..(i - 1) : x[j] = y[j]
RECURSIVE Total(_, _)
\* the sum of the counts of the labels xs
Total(counts, xs) ==
  IF xs = {} THEN 0
  ELSE LET x == CHOOSE z \in xs : TRUE IN counts[x] + Total(counts, xs \ {x})
\* reverse_endianness: every label is read from its end
Relabel(counts, reverse) ==
  IF reverse THEN [x \in DOMAIN counts |-> counts[Reverse(x)]] ELSE counts
\* the order of the output with ties broken by descending label
ComesFirstTiesDescending(c, x, y) ==
  c[x] > c[y] \/ (c[x] = c[y] /\ LexLess(y, x))
\* label x is before label y in the output: descending probability, ties by
\* ascending lexicographic label
ComesFirst(c, x, y) ==
  c[x] > c[y] \/ (c[x] = c[y] /\ LexLess(x, y))
RECURSIVE InOrder(_, _)
InOrder(c, xs) ==
  IF xs = {} THEN <<>>
  ELSE LET x == CHOOSE z \in xs : \A y \in xs \ {z} : ComesFirst(c, z, y)
       IN <<x>> \o InOrder(c, xs \ {x})
\* sample(shots, massive, reverse_endianness) once the counts are returned:
\* "Returns dict of bitstrings in order of probability, with values being
\* probability"
sample(counts, reverse) ==
  LET c == Relabel(counts, reverse)
      shots == Total(counts, DOMAIN counts)
      order == InOrder(c, {x \in DOMAIN c : c[x] > 0})
  IN [i \in 1..Len(order) |-> [label |-> order[i], prob |-> <<c[order[i]], shots>>]]

\* the counts the execution of the circuit of t can return for a number of
\* repetitions: a label of amplitude zero is never measured
PossibleCounts(t, shots) ==
  LET measured == {x \in Labels(t.n) : CircAmp(t.prim, x) # GZero}
  IN {[x \in Labels(t.n) |-> IF x \in measured THEN c[x] ELSE 0] :
        c \in {d \in [measured -> 0..shots] : Total(d, measured) = shots}}

\* the counts the collaborator can return to a call
CountsOf(call) ==
  IF call.op = "sample" THEN PossibleCounts(call.a, call.shots) ELSE {}

\* a call that on a timeout would issue its request a second time
onTimeoutRetry(call) ==
  IF call.attempts < 2
  THEN [call EXCEPT !.attempts = @ + 1, !.invocations = @ + 1, !.timedOut = TRUE]
  ELSE [call EXCEPT !.status = "ResourceTimeoutError", !.timedOut = TRUE]
\* the collaborator did not answer within the time bound: the call ends
\* with ResourceTimeoutError
onTimeout(call) ==
  [call EXCEPT !.status = "ResourceTimeoutError", !.timedOut = TRUE]

\* the tree a caller holds after an operation on it that returned out: the
\* operation built a new node
OperandOverwritten(t, out) == IF out.status = "ok" THEN out.tree ELSE t
OperandAfter(t, out) == t

(***************************************************************************)
(* The state machine: a caller holds one tree (self), calls an operation   *)
(* on it, and keeps or drops the result the call returned (last).          *)
(***************************************************************************)
VARIABLES self, last
vars == <<self, last>>

WideQubits == {MassiveQubits, MassiveQubits + 1, MassiveQubits + 2}
ZeroCircuit(n) == [q \in 1..n |-> "0"]
\* the primitives a caller constructs
Library ==
  {StateLeaf(<<"i">>, CoeffOne, FALSE), StateLeaf(<<"+">>, CoeffOne, FALSE),
   OpLeaf(<<"S">>, CoeffOne), OpLeaf(<<"I">>, CoeffOne)}
  \cup {StateLeaf(ZeroCircuit(n), CoeffOne, FALSE) : n \in WideQubits}
  \cup {OpLeaf([q \in 1..(MassiveQubits + 1) |-> "I"], CoeffOne)}
  \cup {StateLeaf(<<"i", "+">>, CoeffOne, FALSE),
        StateLeaf(<<"0", "i", "+">>, CoeffOne, FALSE)}
\* the right operands of add, compose and tensor
Operands ==
  {StateLeaf(<<"i">>, NumCoeff(GTwo), FALSE), StateLeaf(<<"+">>, ParCoeff("q"), FALSE),
   StateLeaf(<<"+">>, NumCoeff(GI), TRUE),
   OpLeaf(<<"S">>, CoeffOne), OpLeaf(<<"I">>, CoeffOne),
   StateLeaf(<<"0", "i">>, CoeffOne, FALSE)}
\* the scalars of mul
Scalars == {NumCoeff(GI), NumCoeff(GZero), ParCoeff("p")}
\* the exponents of tensorpower
Exponents == {-1, 0, 1, 2, 3}
\* the requests of bind
Requests ==
  {[p \in {"p"} |-> One(GI)],
   [p \in {"p"} |-> Rename("q")],
   [p \in {"p"} |-> Several(<<GTwo>>)],
   [p \in {"p"} |-> Several(<<GI, GTwo>>)],
   [p \in {"p", "q"} |-> IF p = "p" THEN Several(<<GI, GTwo>>) ELSE One(GI)],
   [p \in {"p", "q"} |-> IF p = "p" THEN Several(<<GI, GTwo>>) ELSE Several(<<GOne>>)]}
NoRequest == [p \in {} |-> One(GOne)]
\* the permutations of permute
Relabelings == {<<0>>, <<0, 1>>, <<1, 0>>, <<1, 2, 0>>}
\* list-shaped fronts: three labels, and a list of a list of two labels
ListFronts ==
  {ValL(<<Basis(<<0>>), Basis(<<1>>), Basis(<<1>>)>>),
   ValL(<<ValL(<<Basis(<<0>>), Basis(<<1>>)>>)>>)}
\* the fronts of eval: none, a basis label, or a list
Fronts ==
  {NoFront} \cup {Basis(x) : x \in UNION {Labels(n) : n \in 1..MaxLabel}}
  \cup ListFronts

NoCall ==
  [op |-> "none", a |-> NoTree, b |-> NoTree, scalar |-> CoeffOne, k |-> 0,
   req |-> NoRequest, massive |-> FALSE, status |-> "none", res |-> NoTree,
   shape |-> <<>>, perm |-> <<>>, front |-> NoFront, value |-> ValE,
   shots |-> 0, reverse |-> FALSE, counts |-> <<>>, dist |-> <<>>,
   pending |-> 0, invocations |-> 0, attempts |-> 0, timedOut |-> FALSE,
   form |-> "none", tasks |-> <<>>, parts |-> <<>>]
Returned(op, a, out) ==
  [NoCall EXCEPT !.op = op, !.a = a, !.status = out.status, !.res = out.tree]

Idle == last.op = "none"
CanCall == Idle /\ self # NoTree

Init == self = NoTree /\ last = NoCall

Construct(leaf) ==
  /\ Idle
  /\ self' = leaf
  /\ last' = NoCall

Add(b) ==
  /\ CanCall
  /\ LET out == add(self, b)
     IN /\ last' = [Returned("add", self, out) EXCEPT !.b = b]
        /\ self' = OperandAfter(self, out)

Tensor(b) ==
  /\ CanCall
  /\ LET out == tensor(self, b)
     IN /\ last' = [Returned("tensor", self, out) EXCEPT !.b = b]
        /\ self' = OperandAfter(self, out)

Compose(b) ==
  /\ CanCall
  /\ LET out == compose(self, b)
     IN /\ last' = [Returned("compose", self, out) EXCEPT !.b = b]
        /\ self' = OperandAfter(self, out)

Adjoint ==
  /\ CanCall
  /\ LET out == Ok(adjoint(self))
     IN /\ last' = Returned("adjoint", self, out)
        /\ self' = OperandAfter(self, out)

\* mul is called on trees whose coefficients are all 1: the other
\* coefficients of a tree come from the operands and from bind and reduce
Mul(c) ==
  /\ CanCall
  /\ ScaledCount(self) = 0
  /\ LET out == Ok(mul(self, c))
     IN /\ last' = [Returned("mul", self, out) EXCEPT !.scalar = c]
        /\ self' = OperandAfter(self, out)

\* neg is called on leaves and on trees whose coefficients are all 1
Neg ==
  /\ CanCall
  /\ IsLeaf(self) \/ ScaledCount(self) = 0
  /\ LET out == Ok(neg(self))
     IN /\ last' = Returned("neg", self, out)
        /\ self' = OperandAfter(self, out)

TensorPower(k) ==
  /\ CanCall
  /\ LET out == tensorpower(self, k)
     IN /\ last' = [Returned("tensorpower", self, out) EXCEPT !.k = k]
        /\ self' = OperandAfter(self, out)

\* reduce() on the tree the caller holds, or chained on the tree the last
\* call returned
Reduce ==
  /\ \/ CanCall
     \/ last.op \notin {"none", "reduce"} /\ last.status = "ok" /\ last.res # NoTree
  /\ LET t == IF Idle THEN self ELSE last.res
         out == Ok(reduce(t))
     IN /\ last' = Returned("reduce", t, out)
        /\ self' = IF Idle THEN OperandAfter(self, out) ELSE self

Bind(req) ==
  /\ CanCall
  /\ LET out == bind(self, req)
     IN /\ last' = [Returned("bind", self, out) EXCEPT !.req = req]
        /\ self' = OperandAfter(self, out)

ToMatrix(massive) ==
  /\ CanCall
  /\ IsStateFn(self) \/ self.cat = "Op"
  /\ LET out == to_matrix(self, massive)
     IN last' = [NoCall EXCEPT !.op = "to_matrix", !.a = self, !.massive = massive,
                               !.status = out.status, !.shape = out.shape]
  /\ UNCHANGED self

ToDensityMatrix(massive) ==
  /\ CanCall
  /\ IsStateFn(self)
  /\ LET out == to_density_matrix(self, massive)
     IN last' = [NoCall EXCEPT !.op = "to_density_matrix", !.a = self,
                               !.massive = massive,
                               !.status = out.status, !.shape = out.shape]
  /\ UNCHANGED self

ToLegacyOp(massive) ==
  /\ CanCall
  /\ IsStateFn(self) \/ self.cat = "Op"
  /\ LET out == to_legacy_op(self, massive)
     IN last' = [NoCall EXCEPT !.op = "to_legacy_op", !.a = self,
                               !.massive = massive,
                               !.status = out.status, !.form = out.form]
  /\ UNCHANGED self

\* permute(permutation) on a leaf
Permute(perm) ==
  /\ CanCall
  /\ IsLeaf(self)
  /\ LET out == permute(self, perm)
     IN /\ last' = [Returned("permute", self, out) EXCEPT !.perm = perm]
        /\ self' = OperandAfter(self, out)

\* eval(front): a tree without circuit returns at once; the circuit of every
\* circuit-backed leaf goes to the collaborator, one request after the
\* other, the first of them here
EvalCall(front) ==
  /\ CanCall
  /\ Evaluable(self)
  /\ last' =
       IF CircuitCount(self) > 0
       THEN [NoCall EXCEPT !.op = "eval", !.a = self, !.front = front,
                           !.status = "waiting", !.pending = CircuitCount(self),
                           !.invocations = 1, !.attempts = 1]
       ELSE LET out == eval(self, front)
            IN [NoCall EXCEPT !.op = "eval", !.a = self, !.front = front,
                              !.status = out.status, !.value = out.value]
  /\ UNCHANGED self

\* sample(shots, massive, reverse_endianness) on a circuit state function:
\* the circuit goes to the collaborator, in one request
Sample(shots, reverse) ==
  /\ CanCall
  /\ self.kind = "Circ"
  /\ Evaluable(self)
  /\ last' = [NoCall EXCEPT !.op = "sample", !.a = self, !.shots = shots,
                            !.reverse = reverse, !.status = "waiting",
                            !.pending = 1, !.invocations = 1, !.attempts = 1]
  /\ UNCHANGED self

\* the collaborator returns a state vector: the request of the next circuit
\* is issued, or after the last one eval returns its value
SimulationReturns ==
  /\ last.op = "eval"
  /\ last.status = "waiting"
  /\ LET out == eval(last.a, last.front)
     IN last' = IF last.pending > 1
                THEN [last EXCEPT !.pending = @ - 1, !.invocations = @ + 1,
                                  !.attempts = 1]
                ELSE [last EXCEPT !.pending = 0, !.status = out.status,
                                  !.value = out.value]
  /\ UNCHANGED self

\* the collaborator returns the outcome counts: sample returns its mapping
ExecutionReturns(counts) ==
  /\ last.op = "sample"
  /\ last.status = "waiting"
  /\ last' = [last EXCEPT !.pending = 0, !.status = "ok", !.counts = counts,
                          !.dist = sample(counts, last.reverse)]
  /\ UNCHANGED self

\* the collaborator exceeds its time bound
ExecutionTimesOut ==
  /\ last.status = "waiting"
  /\ last' = onTimeout(last)
  /\ UNCHANGED self

\* the caller goes on with the tree the call returned
Keep ==
  /\ last.status = "ok"
  /\ last.res # NoTree
  /\ NodeCount(last.res) <= MaxNodes
  /\ CoeffsWithin(last.res, MaxCoeff)
  /\ last.res.n <= MaxEvalQubits
  /\ self' = last.res
  /\ last' = NoCall

\* the caller goes on with the tree it had
Drop ==
  /\ ~Idle
  /\ last' = NoCall
  /\ UNCHANGED self

Next ==
  \/ \E leaf \in Library : Construct(leaf)
  \/ \E b \in Operands : Add(b)
  \/ \E b \in Operands : Tensor(b)
  \/ \E b \in Operands : Compose(b)
  \/ Adjoint
  \/ \E c \in Scalars : Mul(c)
  \/ Neg
  \/ \E k \in Exponents : TensorPower(k)
  \/ Reduce
  \/ \E req \in Requests : Bind(req)
  \/ \E massive \in BOOLEAN : ToMatrix(massive)
  \/ \E massive \in BOOLEAN : ToDensityMatrix(massive)
  \/ \E massive \in BOOLEAN : ToLegacyOp(massive)
  \/ \E perm \in Relabelings : Permute(perm)
  \/ \E front \in Fronts : EvalCall(front)
  \/ \E shots \in 1..MaxShots, reverse \in BOOLEAN : Sample(shots, reverse)
  \/ SimulationReturns
  \/ \E counts \in CountsOf(last) : ExecutionReturns(counts)
  \/ ExecutionTimesOut
  \/ Keep
  \/ Drop

Spec == Init /\ [][Next]_vars

(***************************************************************************)
(* The simplification followed rule by rule: self is a tree built by at    *)
(* most MaxBuild construction calls, last.a the same tree and last.res the *)
(* tree after the rules applied so far.  Every step applies one rule at    *)
(* one node.                                                               *)
(***************************************************************************)
RewriteOperands ==
  {OpLeaf(<<"S">>, CoeffOne), OpLeaf(<<"S">>, NumCoeff(GZero)), OpLeaf(<<"I">>, CoeffOne)}
RewriteScalars == {NumCoeff(GI), NumCoeff(GZero), ParCoeff("p")}
SingletonRequest == [p \in {"p"} |-> Several(<<GTwo>>)]
\* the trees one construction call on t returns
OneCall(t) ==
  {add(t, b).tree : b \in {c \in RewriteOperands : add(t, c).status = "ok"}}
  \cup {compose(t, b).tree : b \in {c \in RewriteOperands : compose(t, c).status = "ok"}}
  \cup {tensor(t, TensorUnit).tree, tensor(TensorUnit, t).tree}
  \cup {mul(t, c) : c \in RewriteScalars}
  \cup {bind(t, SingletonRequest).tree}
RECURSIVE BuiltBy(_)
\* the trees built from a primitive operator by at most k construction calls
BuiltBy(k) ==
  IF k = 0 THEN {OpLeaf(<<"S">>, CoeffOne), OpLeaf(<<"I">>, CoeffOne)}
  ELSE LET prev == BuiltBy(k - 1)
       IN prev \cup UNION {OneCall(t) : t \in prev}

Rewriting == last.op = "rewrite"
RewriteInit ==
  /\ self \in BuiltBy(MaxBuild)
  /\ last = [NoCall EXCEPT !.op = "rewrite", !.a = self, !.status = "ok", !.res = self]

\* one rule applied at one node of the tree
RewriteStep(rule) ==
  /\ Rewriting
  /\ \E path \in Paths(last.res) :
       \E i \in 1..(Len(Subtree(last.res, path).kids)) :
         /\ Applicable(Subtree(last.res, path), rule, i)
         /\ last' = [last EXCEPT !.res = RewriteAt(last.res, path, rule, i)]
  /\ UNCHANGED self
ApplyMerge == RewriteStep("merge")
ApplyZero == RewriteStep("zero")
ApplyIdentity == RewriteStep("identity")
ApplySingle == RewriteStep("single")

RewriteNext ==
  \/ ApplyMerge
  \/ ApplyZero
  \/ ApplyIdentity
  \/ ApplySingle

RewriteSpec == RewriteInit /\ [][RewriteNext]_vars
\* reduce goes on for as long as a rule applies somewhere in the tree
RewriteFairSpec == RewriteSpec /\ WF_vars(RewriteNext)

(***************************************************************************)
(* The evaluation of the children of a Sum, List or Tensor node by         *)
(* concurrent workers, one task per child.  last.tasks[i] is the position  *)
(* of the task of child i ("idle", "running", "done"), last.parts[i] the   *)
(* result it stored.  The tasks start and finish in any order; when all    *)
(* are done the results are combined in the order of the children.         *)
(***************************************************************************)
Pending == [k |-> "P", v |-> <<>>]
\* the front of child i of t when the front of t is f: the same front for a
\* Sum or a List, the label of the qubits of the child for a Tensor
ChildFront(t, f, i) ==
  IF t.kind = "Tensor"
  THEN Basis(QubitSlice(f.v, SeqQubits(SubSeq(t.kids, i + 1, Len(t.kids))),
                        t.kids[i].n))
  ELSE f
RECURSIVE AddAll(_)
AddAll(s) == IF Len(s) = 1 THEN s[1] ELSE VAdd(Head(s), AddAll(Tail(s)))
RECURSIVE KronAll(_)
KronAll(s) == IF Len(s) = 1 THEN s[1] ELSE VKron(Head(s), KronAll(Tail(s)))
\* the results of the children, in the order of the children, combined
\* into the result of t
CombineParts(t, parts) ==
  ApplyCoeff(t.coeff,
             CASE t.kind = "List" /\ t.red = "collect" -> ValL(parts)
               [] t.kind = "Tensor" -> KronAll(parts)
               [] OTHER -> AddAll(parts))
\* the slot a task would store in if all tasks shared one slot
ResultSlotShared(t, i) == 1
\* the slot in which the task of child i stores its result: its own
ResultSlot(t, i) == i

ParLeaves ==
  {StateLeaf(<<"i">>, CoeffOne, FALSE), StateLeaf(<<"+">>, NumCoeff(GTwo), FALSE),
   StateLeaf(<<"0", "i">>, NumCoeff(GI), FALSE), OpLeaf(<<"S">>, CoeffOne)}
ParRequests ==
  {[p \in {"p"} |-> Several(<<GI, GTwo>>)],
   [p \in {"p"} |-> Several(<<GI, GTwo, GOne>>)]}
\* the pairs of leaves that add accepts
ParTerms ==
  {pr \in ParLeaves \X ParLeaves : add(pr[1], pr[2]).status = "ok"}
\* Sum, Tensor and List nodes of two and three children
ParTrees ==
  {add(pr[1], pr[2]).tree : pr \in ParTerms}
  \cup {reduce(add(add(pr[1], pr[1]).tree, pr[2]).tree) : pr \in ParTerms}
  \cup {tensor(a, b).tree : a \in ParLeaves, b \in ParLeaves}
  \cup {bind(mul(a, ParCoeff("p")), req).tree : a \in ParLeaves, req \in ParRequests}

ParEval == last.op = "pareval"
ParInit ==
  /\ self \in ParTrees
  /\ \E x \in Labels(self.n) :
       last = [NoCall EXCEPT !.op = "pareval", !.a = self, !.front = Basis(x),
                             !.status = "running",
                             !.tasks = [i \in 1..Len(self.kids) |-> "idle"],
                             !.parts = [i \in 1..Len(self.kids) |-> Pending]]

\* a worker takes the task of child i
StartChild(i) ==
  /\ ParEval
  /\ last.status = "running"
  /\ last.tasks[i] = "idle"
  /\ last' = [last EXCEPT !.tasks[i] = "running"]
  /\ UNCHANGED self

\* the worker of child i has evaluated the child and stores the result
FinishChild(i) ==
  /\ ParEval
  /\ last.status = "running"
  /\ last.tasks[i] = "running"
  /\ last' = [last EXCEPT
                !.tasks[i] = "done",
                !.parts[ResultSlot(last.a, i)] =
                   Eval(last.a.kids[i], ChildFront(last.a, last.front, i))]
  /\ UNCHANGED self

\* all tasks are done: the results are combined and eval returns
Gather ==
  /\ ParEval
  /\ last.status = "running"
  /\ \A i \in 1..Len(last.tasks) : last.tasks[i] = "done"
  /\ LET v == CombineParts(last.a, last.parts)
         out == IF IsResult(v) THEN Valued(v) ELSE NoValue("EvalError")
     IN last' = [last EXCEPT !.status = out.status, !.value = out.value]
  /\ UNCHANGED self

ParNext ==
  \/ \E i \in 1..Len(last.tasks) : StartChild(i)
  \/ \E i \in 1..Len(last.tasks) : FinishChild(i)
  \/ Gather

ParSpec == ParInit /\ [][ParNext]_vars

(***************************************************************************)
(* Properties.  A call is judged in the state it returned to: last holds   *)
(* the operands (a, b, ...) and the result (status, res, shape).           *)
(***************************************************************************)
Called(op) == last.op = op
Returned_ok(op) == last.op = op /\ last.status = "ok"
EvalOn(t, x) == Eval(t, Basis(x))
IsNumber(a) == a.k = "S"
IsNonZero(a) == a.k = "S" /\ a.v # GZero
\* C1: for trees A and B of equal numQubits and equal category and every
\* basis label x of that length, A.add(B).eval(x) = A.eval(x) + B.eval(x).
C1_AddEvalIsSum ==
  (Returned_ok("add") /\ Evaluable(last.a)) =>
    \A x \in Labels(last.a.n) :
      EvalOn(last.res, x) = VAdd(EvalOn(last.a, x), EvalOn(last.b, x))
\* an add of two terms with different non-zero amplitudes at a label, the
\* first with a coefficient other than 1
C1_Witness ==
  /\ Returned_ok("add")
  /\ last.a.coeff # CoeffOne
  /\ \E x \in Labels(last.a.n) :
       /\ IsNonZero(EvalOn(last.a, x))
       /\ IsNonZero(EvalOn(last.b, x))
       /\ EvalOn(last.a, x) # EvalOn(last.b, x)
       /\ IsNumber(EvalOn(last.res, x))

\* C2: for trees A and B and basis labels x over A's qubits and y over B's,
\* A.tensor(B).eval(x+y) = A.eval(x) * B.eval(y), x+y the concatenation of
\* the labels (A on the higher qubits, B on qubits [0, B.numQubits)).
C2_TensorEvalIsProduct ==
  (Returned_ok("tensor") /\ Evaluable(last.res)) =>
    \A x \in Labels(last.a.n), y \in Labels(last.b.n) :
      EvalOn(last.res, x \o y) = VKron(EvalOn(last.a, x), EvalOn(last.b, y))
\* a tensor product whose two sides differ: exchanging the labels of the
\* sides changes the amplitude
C2_Witness ==
  /\ Returned_ok("tensor")
  /\ Evaluable(last.res)
  /\ \E x \in Labels(last.a.n), y \in Labels(last.b.n) :
       /\ last.a.n = last.b.n
       /\ IsNonZero(EvalOn(last.res, x \o y))
       /\ EvalOn(last.res, x \o y) # EvalOn(last.res, y \o x)

\* C3: for every tree A, adjoint(adjoint(A)) = A, structurally (same
\* representation, primitives, coefficient and isMeasurement) and in the
\* evaluation on every basis label.
C3_AdjointInvolution ==
  Returned_ok("adjoint") =>
    /\ adjoint(last.res) = last.a
    /\ Evaluable(last.a) =>
         \A x \in Labels(last.a.n) :
           EvalOn(adjoint(last.res), x) = EvalOn(last.a, x)
\* the adjoint of a state function with a complex coefficient, which is a
\* measurement with another coefficient
C3_Witness ==
  /\ Returned_ok("adjoint")
  /\ last.a.cat = "State"
  /\ last.res.cat = "Meas"
  /\ last.res.coeff # last.a.coeff
  /\ last.a.kind # "Circ"

\* C4: for every tree A, reduce(reduce(A)) = reduce(A).
C4_ReduceIdempotent ==
  Returned_ok("reduce") => reduce(last.res) = last.res
\* a reduce that changed a combinator whose child it changed as well
C4_Witness ==
  /\ Returned_ok("reduce")
  /\ ~IsLeaf(last.a)
  /\ last.res # last.a
  /\ \E i \in 1..Len(last.a.kids) : reduce(last.a.kids[i]) # last.a.kids[i]

\* C5: binding a placeholder to a list of n >= 1 values and evaluating
\* yields the same sequence of n results, in the same order, as binding
\* each of the n values on its own and evaluating each bound tree.
C5_BindListIsEach ==
  (Returned_ok("bind") /\ SeqLengths(last.req) # {} /\ Evaluable(last.a)) =>
    LET len == CHOOSE l \in SeqLengths(last.req) : TRUE
    IN \A x \in Labels(last.a.n) :
         EvalOn(last.res, x) =
           ValL([i \in 1..len |-> EvalOn(bind(last.a, RequestAt(last.req, i)).tree, x)])
\* a list binding of two values whose two results are different numbers
C5_Witness ==
  /\ Returned_ok("bind")
  /\ SeqLengths(last.req) = {2}
  /\ \E x \in Labels(last.a.n) :
       LET r == EvalOn(last.res, x)
       IN /\ r.k = "L"
          /\ Len(r.v) = 2
          /\ IsNonZero(r.v[1])
          /\ IsNonZero(r.v[2])
          /\ r.v[1] # r.v[2]

RECURSIVE Occurs(_, _)
\* placeholder p occurs in tree t
Occurs(p, t) ==
  t.coeff.par = p \/ \E i \in 1..Len(t.kids) : Occurs(p, t.kids[i])
\* two placeholders of the request that occur in the tree are mapped to
\* sequences of different lengths
MismatchedInTree(t, req) ==
  \E p, q \in DOMAIN req :
    /\ req[p].k = "seq" /\ req[q].k = "seq"
    /\ Len(req[p].v) # Len(req[q].v)
    /\ Occurs(p, t) /\ Occurs(q, t)

\* C6: bind fails with ParameterBroadcastError whenever two placeholders of
\* the request that occur in the tree are mapped to sequences of different
\* lengths, and then returns no tree.
C6_BindMismatchFails ==
  (Called("bind") /\ MismatchedInTree(last.a, last.req)) =>
    last.status = "ParameterBroadcastError" /\ last.res = NoTree
\* a bind of sequences of different lengths for two placeholders of the tree
C6_Witness ==
  Called("bind") /\ MismatchedInTree(last.a, last.req)

\* C7: compose on a state function that is not a measurement (the left
\* operand) fails with CompositionError for every right operand; on a state
\* function it succeeds only when self is a measurement.
C7_ComposeNeedsMeasurement ==
  (Called("compose") /\ IsStateFn(last.a)) =>
    /\ ~IsMeasurement(last.a) =>
         last.status = "CompositionError" /\ last.res = NoTree
    /\ last.status = "ok" => IsMeasurement(last.a)
\* a compose on a state function that is no measurement, with a right
\* operand of the same number of qubits
C7_Witness ==
  /\ Called("compose")
  /\ last.a.cat = "State"
  /\ last.a.n = last.b.n
  /\ last.status = "CompositionError"

\* C8 as stated: to_matrix fails with ResourceGuardError exactly when
\* numQubits > 16 and allowLarge is false, and otherwise returns a matrix of
\* dimension 2^numQubits x 2^numQubits.
C8_DenseIsSquare ==
  (Called("to_matrix") \/ Called("to_density_matrix")) =>
    /\ last.status = "ResourceGuardError" <=> (last.a.n > MassiveQubits /\ ~last.massive)
    /\ last.status # "ResourceGuardError" =>
         last.status = "ok" /\ last.shape = <<last.a.n, last.a.n>>
\* C8 amended: to_matrix and to_density_matrix fail with ResourceGuardError
\* exactly when numQubits > 16 and allowLarge is false; otherwise to_matrix
\* of an operator and to_density_matrix of a state function return a matrix
\* of dimension 2^numQubits x 2^numQubits, and to_matrix of a state function
\* returns a vector of 2^numQubits amplitudes.
C8_DenseGuardAndShape ==
  (Called("to_matrix") \/ Called("to_density_matrix")) =>
    /\ last.status = "ResourceGuardError" <=> (last.a.n > MassiveQubits /\ ~last.massive)
    /\ last.status # "ResourceGuardError" =>
         /\ last.status = "ok"
         /\ last.shape =
              IF Called("to_matrix") /\ IsStateFn(last.a)
              THEN <<last.a.n>> ELSE <<last.a.n, last.a.n>>
\* to_matrix of a tree of 16 qubits without the opt-in, which returns the array
C8_Witness ==
  /\ Called("to_matrix")
  /\ last.a.n = MassiveQubits
  /\ ~last.massive
  /\ last.status = "ok"

\* C9: for every legal composition and basis label x,
\* self.compose(other).eval(x) = self.eval(other.eval(x)): the right operand
\* is evaluated first and its result is the front of the left operand.
C9_ComposeEvalIsSequential ==
  (Returned_ok("compose") /\ Evaluable(last.a)) =>
    \A x \in Labels(last.a.n) :
      EvalOn(last.res, x) = Eval(last.a, EvalOn(last.b, x))
\* a composition of a measurement after an operator that does not commute
\* with it, with a number as result
C9_Witness ==
  /\ Returned_ok("compose")
  /\ last.a.cat = "Meas"
  /\ last.b.cat = "Op"
  /\ \E x \in Labels(last.a.n) :
       /\ IsNonZero(EvalOn(last.res, x))
       /\ EvalOn(last.res, x) # EvalOn(last.a, x)

\* C10: reduce never changes semantics: for every tree A and every valid
\* front x, reduce(A).eval(x) = A.eval(x), the same value of the same shape.
\* (A front is valid for A when A.eval returns a result on it.)
C10_ReducePreservesEval ==
  (Returned_ok("reduce") /\ Evaluable(last.a)) =>
    \A x \in Labels(last.a.n) :
      IsResult(EvalOn(last.a, x)) => EvalOn(last.res, x) = EvalOn(last.a, x)

RECURSIVE SumsUniform(_)
\* the children of every Sum node of t have one numQubits and one category,
\* of operators, of state functions or of measurements
SumsUniform(t) ==
  /\ t.kind = "Sum" =>
       \A i, j \in 1..Len(t.kids) :
         /\ t.kids[i].n = t.kids[j].n
         /\ t.kids[i].cat = t.kids[j].cat
         /\ t.kids[i].cat \in {"Op", "State", "Meas"}
  /\ \A i \in 1..Len(t.kids) : SumsUniform(t.kids[i])

\* C11: in every tree reached by add, compose, tensor, adjoint, mul, reduce
\* and bind calls, the children of every Sum node have the same numQubits
\* and the same category (all operators, all state functions or all
\* measurements); add on operands that differ in numQubits or in category
\* fails and returns no Sum.
C11_SumChildrenUniform ==
  /\ SumsUniform(self)
  /\ SumsUniform(last.res)
  /\ (Called("add") /\ (last.a.n # last.b.n \/ last.a.cat # last.b.cat)) =>
       last.status # "ok" /\ last.res = NoTree
\* a reduce that merged a nested Sum into a Sum of three terms
C11_Witness ==
  /\ Returned_ok("reduce")
  /\ last.a.kind = "Sum"
  /\ last.res.kind = "Sum"
  /\ Len(last.res.kids) = 3
  /\ last.res # last.a

\* the operations that return a tree
TreeOps ==
  {"add", "compose", "tensor", "tensorpower", "adjoint", "mul", "neg", "reduce",
   "bind", "permute"}

C14_AdjointFlipsAndConjugates ==
  (Called("adjoint") /\ IsStateFn(last.a)) =>
    /\ last.status = "ok"
    /\ IsStateFn(last.res)
    /\ IsMeasurement(last.res) = ~IsMeasurement(last.a)
    /\ last.res.coeff.num = <<last.a.coeff.num[1], 0 - last.a.coeff.num[2]>>
    /\ last.res.coeff.par = last.a.coeff.par
    /\ last.a.coeff.par # NoPar => last.res.coeff.cj = ~last.a.coeff.cj
    /\ last.res.n = last.a.n
\* the adjoint of a measurement with a coefficient that is not real, which
\* is a state function again
C14_Witness ==
  /\ Returned_ok("adjoint")
  /\ IsMeasurement(last.a)
  /\ last.a.coeff.num[2] # 0
  /\ last.res.cat = "State"

\* C15: tensorpower(n) fails for every n < 0, returns the designated
\* identity/empty element for n = 0, and for n >= 1 is the left-associative
\* n-fold tensor of the node with itself: tensorpower(1) is the node,
\* tensorpower(2) is A.tensor(A), tensorpower(3) is A.tensor(A).tensor(A),
\* and the result has n * numQubits qubits.
C15_TensorPower ==
  Called("tensorpower") =>
    /\ last.k < 0 => last.status # "ok" /\ last.res = NoTree
    /\ last.k = 0 => last.status = "ok" /\ last.res = TensorUnit
    /\ last.k >= 1 => last.status = "ok" /\ last.res.n = last.k * last.a.n
    /\ last.k = 1 => last.res = last.a
    /\ last.k = 2 => last.res = tensor(last.a, last.a).tree
    /\ last.k = 3 => last.res = tensor(tensor(last.a, last.a).tree, last.a).tree
\* the third tensor power of a tree of qubits, which is not what the
\* right-associative product would be
C15_Witness ==
  /\ Returned_ok("tensorpower")
  /\ last.k = 3
  /\ last.a.n >= 1
  /\ last.res # tensor(last.a, tensor(last.a, last.a).tree).tree

\* C16: bind returns a single tree, the tree with the values substituted,
\* when every placeholder of the request maps to a single value; when a
\* placeholder maps to a sequence of length n it returns a collect-all List
\* node with exactly n children, the i-th child the tree bound with the
\* i-th value of every sequence (and the single values of the others).
C16_BindShape ==
  Returned_ok("bind") =>
    IF \A p \in DOMAIN last.req : last.req[p].k # "seq"
    THEN last.res = Subst(last.a, last.req)
    ELSE /\ last.res.kind = "List"
         /\ last.res.red = "collect"
         /\ \A p \in DOMAIN last.req :
              last.req[p].k = "seq" => Len(last.res.kids) = Len(last.req[p].v)
         /\ \A i \in 1..Len(last.res.kids) :
              last.res.kids[i] =
                Subst(last.a, [p \in DOMAIN last.req |->
                                 IF last.req[p].k = "seq"
                                 THEN One(last.req[p].v[i]) ELSE last.req[p]])
\* a bind of a sequence of one value for a placeholder of the tree: a List of
\* one child, which is not the tree that was bound
C16_Witness ==
  /\ Returned_ok("bind")
  /\ SeqLengths(last.req) = {1}
  /\ Occurs("p", last.a)
  /\ last.res.kind = "List"
  /\ Len(last.res.kids) = 1
  /\ last.res.kids[1] # last.a

\* probability p is greater than, or equal to, probability q (fractions)
ProbGreater(p, q) == p[1] * q[2] > q[1] * p[2]
ProbEqual(p, q) == p[1] * q[2] = q[1] * p[2]

\* C17: sample returns the mapping from bitstring to probability (the count
\* of the bitstring over the number of shots, for every bitstring that was
\* counted) ordered by descending probability, entries of equal probability
\* by ascending lexicographic label: the order is fully determined by the
\* returned counts.
C17_SampleOrder ==
  Returned_ok("sample") =>
    LET d == last.dist
        counted == {x \in DOMAIN last.counts : last.counts[x] > 0}
    IN /\ Len(d) = Cardinality(counted)
       /\ \A x \in counted :
            \E i \in 1..Len(d) :
              /\ d[i].label = (IF last.reverse THEN Reverse(x) ELSE x)
              /\ d[i].prob = <<last.counts[x], last.shots>>
       /\ \A i \in 1..(Len(d) - 1) :
            \/ ProbGreater(d[i].prob, d[i + 1].prob)
            \/ /\ ProbEqual(d[i].prob, d[i + 1].prob)
               /\ LexLess(d[i].label, d[i + 1].label)
\* a sample with reversed labels of three bitstrings, the most probable
\* first and two of equal probability after it
C17_Witness ==
  /\ Returned_ok("sample")
  /\ last.reverse
  /\ Len(last.dist) = 3
  /\ ProbGreater(last.dist[1].prob, last.dist[2].prob)
  /\ ProbEqual(last.dist[2].prob, last.dist[3].prob)
  /\ Reverse(last.dist[2].label) # last.dist[2].label

EvalReturned ==
  Called("eval") /\ last.status \notin {"waiting", "ResourceTimeoutError"}

\* C19: for every state function, eval with no front argument returns the
\* same result as eval with the all-zero basis label of length numQubits.
C19_EvalDefaultFront ==
  (EvalReturned /\ last.front = NoFront /\ IsStateFn(last.a)) =>
    LET out == eval(last.a, Basis([i \in 1..last.a.n |-> 0]))
    IN last.status = out.status /\ last.value = out.value
\* an eval without front of a state function whose value at the all-zero
\* label is not its value at the all-one label
C19_Witness ==
  /\ EvalReturned
  /\ last.front = NoFront
  /\ IsStateFn(last.a)
  /\ last.status = "ok"
  /\ IsNonZero(last.value)
  /\ last.value # EvalOn(last.a, [i \in 1..last.a.n |-> 1])

\* C20: eval on a basis label is valid only when the length of the label is
\* numQubits: a label of any other length is not accepted and gives no
\* value, and a label of length numQubits on a circuit state function
\* returns the amplitude at that index (times the coefficient; conjugated
\* for a measurement).
C20_LabelLength ==
  (EvalReturned /\ last.front.k = "B") =>
    LET x == last.front.v
        t == last.a
    IN /\ Len(x) # t.n => last.status # "ok" /\ last.value = ValE
       /\ (Len(x) = t.n /\ t.kind = "Circ" /\ CoeffIsNum(t.coeff)) =>
            /\ last.status = "ok"
            /\ last.value =
                 ValS(GMul(t.coeff.num,
                           IF IsMeasurement(t) THEN GConj(CircAmp(t.prim, x))
                           ELSE CircAmp(t.prim, x)))
\* an eval of a two-qubit circuit state function on a label of one
\* character, which is not accepted
C20_Witness ==
  /\ EvalReturned
  /\ last.a.kind = "Circ"
  /\ last.a.n = 2
  /\ last.front.k = "B"
  /\ Len(last.front.v) = 1
  /\ last.status = "EvalError"

\* the label x with the bit of every qubit j at qubit perm[j]
PermuteLabel(x, perm) ==
  [i \in 1..Len(x) |->
     BitOfQubit(x, CHOOSE j \in 0..(Len(x) - 1) : perm[j + 1] = Len(x) - i)]

\* C21: permute(permutation) fails with PermutationSizeError and returns no
\* node whenever the length of the permutation is not numQubits; otherwise
\* it returns a node of the same numQubits, coefficient and category in
\* which the qubit at index j of the operand is at position permutation[j]
\* (for a circuit state function: the amplitude of every label is the
\* amplitude the operand has at the label before the move).
C21_Permute ==
  Called("permute") =>
    IF Len(last.perm) # last.a.n
    THEN last.status = "PermutationSizeError" /\ last.res = NoTree
    ELSE /\ last.status = "ok"
         /\ last.res.n = last.a.n
         /\ last.res.coeff = last.a.coeff
         /\ last.res.cat = last.a.cat
         /\ last.res.kind = last.a.kind
         /\ \A j \in 0..(last.a.n - 1) :
              last.res.prim[last.perm[j + 1] + 1] = last.a.prim[j + 1]
         /\ last.a.kind = "Circ" =>
              \A x \in Labels(last.a.n) :
                EvalOn(last.res, PermuteLabel(x, last.perm)) = EvalOn(last.a, x)
\* a permute of three qubits by a permutation that is not its own inverse,
\* which moved every qubit
C21_Witness ==
  /\ Returned_ok("permute")
  /\ last.a.n = 3
  /\ \A j \in 0..2 : last.perm[j + 1] # j
  /\ \A j \in 0..2 : last.res.prim[j + 1] # last.a.prim[j + 1]

\* C22 as stated: the legacy-form conversion succeeds only for a tree that
\* is a Sum of sparse Pauli-type primitives with no unbound placeholder
\* coefficient; for every other tree it fails with UnrepresentableError.
C22_LegacyOnlySumsOfPaulis ==
  Called("to_legacy_op") =>
    IF IsSumOfPaulis(last.a) /\ ~HasUnboundCoeff(last.a)
    THEN last.status = "ok"
    ELSE last.status = "UnrepresentableError"
\* C22 amended: the legacy-form conversion fails with UnrepresentableError
\* for every state function, every tree with a proper List and every tree
\* with an unbound placeholder coefficient; a Sum of sparse Pauli-type
\* primitives without placeholder converts to the sparse weighted-operator
\* form, and every other tree of operators without List and placeholder
\* converts to the dense matrix form (failing with ResourceGuardError when
\* numQubits > 16 and allowLarge is false).
C22_LegacyConversion ==
  Called("to_legacy_op") =>
    /\ (IsStateFn(last.a) \/ HasProperList(last.a) \/ HasUnboundCoeff(last.a)) =>
         last.status = "UnrepresentableError" /\ last.form = "none"
    /\ (IsSumOfPaulis(last.a) /\ ~HasUnboundCoeff(last.a)) =>
         last.status = "ok" /\ last.form = "WeightedPauliOperator"
    /\ (/\ last.a.cat = "Op" /\ CircuitCount(last.a) = 0
        /\ ~HasProperList(last.a) /\ ~HasUnboundCoeff(last.a)
        /\ ~IsSumOfPaulis(last.a)) =>
         IF last.a.n > MassiveQubits /\ ~last.massive
         THEN last.status = "ResourceGuardError" /\ last.form = "none"
         ELSE last.status = "ok" /\ last.form = "MatrixOperator"
\* the conversion of a composition of two operators, which is no Sum and
\* converts to the dense matrix form
C22_Witness ==
  /\ Called("to_legacy_op")
  /\ last.a.kind = "Compose"
  /\ last.a.cat = "Op"
  /\ last.status = "ok"
  /\ last.form = "MatrixOperator"

\* a reduction rule applies at the root of t: a nested Sum to merge, a
\* zero-coefficient term to drop, an identity element of a Compose or Tensor
\* chain to remove, or a combinator of one child to collapse
RuleApplies(t) ==
  \/ /\ t.kind = "Sum"
     /\ \E i \in 1..Len(t.kids) :
          \/ t.kids[i].kind = "Sum" /\ CoeffIsNum(t.kids[i].coeff)
          \/ CoeffIsZero(t.kids[i].coeff)
  \/ /\ t.kind = "Compose"
     /\ \E i \in 1..Len(t.kids) : IsComposeIdentity(t.kids[i])
  \/ /\ t.kind = "Tensor"
     /\ \E i \in 1..Len(t.kids) : IsTensorIdentity(t.kids[i])
  \/ /\ ~IsLeaf(t)
     /\ Len(t.kids) = 1
     /\ CanMerge(t.coeff, t.kids[1].coeff)
RECURSIVE Irreducible(_)
\* no reduction rule applies at any node of t
Irreducible(t) ==
  ~RuleApplies(t) /\ \A i \in 1..Len(t.kids) : Irreducible(t.kids[i])

\* C23: reduce() on a node for which no reduction rule applies (at the node
\* or below it) returns that same node; the tree a reduce call returned is
\* such a node, so that a further reduce call on it is a no-op.
C23_ReduceIrreducible ==
  Returned_ok("reduce") =>
    /\ Irreducible(last.a) => last.res = last.a
    /\ Irreducible(last.res)
    /\ reduce(last.res) = last.res
\* a reduce of a Sum of two terms with a coefficient other than 1, to which
\* no rule applies
C23_Witness ==
  /\ Returned_ok("reduce")
  /\ last.a.kind = "Sum"
  /\ Len(last.a.kids) = 2
  /\ last.a.coeff # CoeffOne
  /\ Irreducible(last.a)
  /\ last.res = last.a

\* C24: the reduction pass is order-independent: for every tree, applying
\* the simplification rules in any order and at any position reaches the
\* same irreducible tree, the tree reduce returns.
C24_OrderIndependent ==
  (Rewriting /\ Irreducible(last.res)) => last.res = reduce(last.a)

\* a List of exactly one child whose coefficient can be given to the child
IsSingletonList(t) ==
  t.kind = "List" /\ Len(t.kids) = 1 /\ CanMerge(t.coeff, t.kids[1].coeff)

RECURSIVE Shape(_)
\* the lengths of the nested sequences of a result or a front, outermost
\* first
Shape(a) ==
  IF a.k # "L" THEN <<>>
  ELSE <<Len(a.v)>> \o (IF a.v = <<>> THEN <<>> ELSE Shape(a.v[1]))
RECURSIVE TreeShape(_)
\* the numbers of children of the nested collect-all Lists of a tree,
\* outermost first
TreeShape(t) ==
  IF t.kind = "List" /\ t.red = "collect" /\ t.kids # <<>>
  THEN <<Len(t.kids)>> \o TreeShape(t.kids[1])
  ELSE <<>>
IsListFront(f) == f.k = "L"
RECURSIVE ListsOutermost(_)
\* the collect-all Lists of t are the root and the first children below it,
\* with no collect-all List inside another kind of node
ListsOutermost(t) ==
  IF t.kind = "List" /\ t.red = "collect" /\ t.kids # <<>>
  THEN ListsOutermost(t.kids[1])
  ELSE ~HasProperList(t)

SlotsChanged(before, after) ==
  {i \in 1..Len(before.parts) : after.parts[i] # before.parts[i]}
\* every finished task has stored what the sequential evaluation of its
\* child gives, every other slot is empty, and the value eval returned is
\* that of the sequential evaluation
ParResultsSequential ==
  ParEval =>
    /\ \A i \in 1..Len(last.tasks) :
         last.parts[i] =
           IF last.tasks[i] = "done"
           THEN Eval(last.a.kids[i], ChildFront(last.a, last.front, i))
           ELSE Pending
    /\ last.status # "running" =>
         /\ last.status = eval(last.a, last.front).status
         /\ last.value = eval(last.a, last.front).value
\* a step leaves the tree and the front as they are and writes at most the
\* slot of the task that finishes
ParStepIsLocal ==
  /\ self' = self
  /\ last'.a = last.a
  /\ last'.front = last.front
  /\ \A i \in SlotsChanged(last, last') :
       /\ last.tasks[i] = "running"
       /\ last'.tasks[i] = "done"
       /\ SlotsChanged(last, last') = {i}

MinusOne == NumCoeff(GNeg(GOne))
\* the tree with the coefficient of its root set to 1
Unscaled(t) == [t EXCEPT !.coeff = CoeffOne]
\* the labels on which eval of t returns a result
ValidLabels(t) ==
  IF Evaluable(t) THEN {x \in Labels(t.n) : IsResult(EvalOn(t, x))} ELSE {}

\* C28: coefficients compose multiplicatively: for every tree A, number c
\* and valid label x, A.mul(c).eval(x) = c * A.eval(x), and a further
\* mul(d) gives d * c * A.eval(x); neg() is mul(-1); and A.tensor(B)
\* evaluates to the product of the coefficients of A and B times the
\* product of the values of A and B without their coefficients.
C28_CoefficientsMultiply ==
  /\ (Returned_ok("mul") /\ CoeffIsNum(last.scalar)) =>
       \A x \in ValidLabels(last.a) :
         /\ EvalOn(last.res, x) = VScale(last.scalar.num, EvalOn(last.a, x))
         /\ \A d \in {GI, GTwo} :
              EvalOn(mul(last.res, NumCoeff(d)), x) =
                VScale(GMul(d, last.scalar.num), EvalOn(last.a, x))
  /\ Returned_ok("neg") =>
       /\ last.res = mul(last.a, MinusOne)
       /\ \A x \in ValidLabels(last.a) :
            EvalOn(last.res, x) = VScale(GNeg(GOne), EvalOn(last.a, x))
  /\ (/\ Returned_ok("tensor") /\ Evaluable(last.res)
      /\ CoeffIsNum(last.a.coeff) /\ CoeffIsNum(last.b.coeff)) =>
       \A x \in Labels(last.a.n), y \in Labels(last.b.n) :
         EvalOn(last.res, x \o y) =
           VScale(GMul(last.a.coeff.num, last.b.coeff.num),
                  VKron(EvalOn(Unscaled(last.a), x), EvalOn(Unscaled(last.b), y)))
\* the negation of a state function with the coefficient i, whose value at
\* some label is not zero
C28_Witness ==
  /\ Returned_ok("neg")
  /\ IsStateFn(last.a)
  /\ last.a.coeff.num = GI
  /\ last.res.coeff.num = GNeg(GI)
  /\ \E x \in ValidLabels(last.a) : IsNonZero(EvalOn(last.res, x))

RECURSIVE QubitsOf(_)
RECURSIVE SeqQubitsOf(_)
\* the number of qubits of t counted on its structure: the qubits of the
\* primitive of a leaf, the sum over the children of a Tensor, the qubits of
\* the first child of a Sum, Compose or List
QubitsOf(t) ==
  CASE IsLeaf(t) -> Len(t.prim)
    [] t.kind = "Tensor" -> SeqQubitsOf(t.kids)
    [] t.kids = <<>> -> t.n
    [] OTHER -> QubitsOf(t.kids[1])
SeqQubitsOf(s) ==
  IF s = <<>> THEN 0 ELSE QubitsOf(Head(s)) + SeqQubitsOf(Tail(s))

RECURSIVE Categorised(_)
\* every node of t is an operator, a state function, a measurement or the
\* empty element of the tensor product: no node is a complete inner product
\* of a measurement and a state function, and no Tensor node mixes the
\* categories
Categorised(t) ==
  /\ t.cat \in {"Op", "State", "Meas"} \/ IsTensorIdentity(t)
  /\ \A i \in 1..Len(t.kids) : Categorised(t.kids[i])

NoRuleApplies(t) ==
  \A path \in Paths(t) : \A rule \in Rules :
    \A i \in 1..Len(Subtree(t, path).kids) : ~Applicable(Subtree(t, path), rule, i)

\* C30: reduction terminates: every simplification step makes the tree
\* smaller by one node at least, so that no sequence of rules rewrites for
\* ever, and from any tree built by the construction calls the steps reach,
\* whatever rules are chosen, a tree to which no rule applies.
C30_ReductionTerminates ==
  /\ [][NodeCount(last'.res) < NodeCount(last.res)]_vars
  /\ <>[]NoRuleApplies(last.res)
\* a rewriting of three steps or more that has reached a tree to which no
\* rule applies
C30_Witness ==
  /\ Rewriting
  /\ NoRuleApplies(last.res)
  /\ NodeCount(last.a) >= NodeCount(last.res) + 3
  /\ ~NoRuleApplies(last.a)

====
